---------------------------- MODULE Spec2Model ----------------------------
(***************************************************************************)
(* State-machine model of the realtime voice bridge.                       *)
(*                                                                         *)
(* The repository holds four revisions of the same server program:        *)
(*   "server"   src/server.js                                              *)
(*   "part000"  src/unnamed/part_000                                       *)
(*   "part001"  src/unnamed/part_001                                       *)
(*   "part002"  src/unnamed/part_002                                       *)
(* A behaviour of the model runs one of them (variable `variant`, fixed    *)
(* in Init); every operator that differs between the revisions branches    *)
(* on it.                                                                  *)
(*                                                                         *)
(* Node runs every callback to its next `await` without interruption, so   *)
(* one action is one such run: the webhook, the connection callback, the   *)
(* message callback up to the dispatch of the inference call, the          *)
(* continuation after the call resolves or rejects, and the close          *)
(* callback.  Text is a sequence of word tokens; the token SP is a blank.  *)
(* Timestamps (Date.now()) and console output are left out.                *)
(*                                                                         *)
(* Specifications:                                                         *)
(*   Spec           turn-taking frames, a disk that works                  *)
(*   FairSpec       Spec, and every backend call settles                   *)
(*   SpecFaults     Spec with a memory file that may be unreadable or      *)
(*                  unwritable while a callback runs                       *)
(*   SpecMalformed  frames that are not JSON or lack their text            *)
(*   SpecMedia      start and media frames, every backend call settles     *)
(*   SpecExtract    the audio extraction applied alone to every response   *)
(*                  of up to MaxParts parts                                *)
(*   SpecClassify   classifyIntent applied alone to every text of up to    *)
(*                  MaxWords tokens                                        *)
(*   SpecEmotion    user_speech frames with and without an emotion         *)
(*   SpecControl    start, media, stop, call_end and unrecognised frames   *)
(*   SpecBlank      user_speech frames whose text is a blank               *)
(***************************************************************************)
EXTENDS Naturals, Integers, Sequences, FiniteSets, TLC

\* ------------------------------------------------------------- bounds
\* Total number of inbound requests served: WebSocket frames delivered, over
\* all connections, and POST /incoming requests.
MaxInbound == 2

\* ------------------------------------------------------------- data
Variants == {"server", "part000", "part001", "part002"}

\* The connections of a run, named in the order the server accepts them:
\* two sockets, as in the two-call scenarios.
Conns == {1, 2}

\* Provider call ids (Twilio CallSid) the webhook may be posted with;
\* 0 stands for a request body without CallSid.
CallSids == {1}

\* A Call identifier: <<"uuid", n>> is the n-th value uuidv4() returned,
\* <<"sid", k>> the provider's CallSid k.
UuidIds == {<<"uuid", n>> : n \in 1..(Cardinality(Conns) + MaxInbound)}
SidIds == {<<"sid", k>> : k \in CallSids}
CallIds == UuidIds \cup SidIds
NoId == <<"none", 0>>

SP == "SP"

\* A text field is <<>> when the frame has none.
NoText == <<>>

Frame(event, json, hasText, text, isFinal, emotion) ==
    [event |-> event, json |-> json, hasText |-> hasText, text |-> text,
     isFinal |-> isFinal, emotion |-> emotion]

\* The user_speech frames a run draws from.  isFinal is "true", "false" or
\* "absent"; emotion is "" when the frame has none.
\*   a final greeting, a partial booking request from an angry caller,
\*   a final frame whose text is one blank, the same from a sad caller,
\*   and a frame without text.
SpeechFrames ==
    { Frame("user_speech", TRUE, TRUE, <<"hi">>, "true", ""),
      Frame("user_speech", TRUE, TRUE, <<"book", "when">>, "false", "angry"),
      Frame("user_speech", TRUE, TRUE, <<SP>>, "true", ""),
      Frame("user_speech", TRUE, TRUE, <<SP>>, "true", "sad"),
      Frame("user_speech", TRUE, FALSE, NoText, "true", "") }

\* the other frames: the control events, an unrecognised event, a JSON
\* object without event ("") and a frame that is not JSON.
ControlEvents == {"start", "media", "stop", "call_end", "other", ""}
ControlFrames ==
    {Frame(ev, TRUE, FALSE, NoText, "absent", "") : ev \in ControlEvents}
    \cup {Frame("", FALSE, FALSE, NoText, "absent", "")}

Frames == SpeechFrames \cup ControlFrames

\* One element of resp.output.  An absent (or empty) field is <<>>.
Part(type, content, audio, text) ==
    [type |-> type, content |-> content, audio |-> audio, text |-> text]

\* The responses the backend may resolve with: hasOutput = FALSE is a
\* response object without an output array.
Resp(hasOutput, output) == [hasOutput |-> hasOutput, output |-> output]

\* a response without output, one with text only, one with audio and text
Responses ==
    { Resp(FALSE, <<>>),
      Resp(TRUE, <<Part("output_text", <<"ok">>, <<>>, <<>>)>>),
      Resp(TRUE, <<Part("output_audio", <<>>, <<"wav">>, <<>>),
                   Part("output_text", <<"ok">>, <<>>, <<>>)>>) }

\* ------------------------------------------------------------- strings
\* String.prototype.toLowerCase on a word token.
Lower(w) ==
    CASE w = "Book" -> "book"
      [] w = "Hi" -> "hi"
      [] w = "ANGRY" -> "angry"
      [] OTHER -> w

\* Array.prototype.join(" ") over texts: the texts in order with one
\* blank between neighbours (an undefined element joins as "").
RECURSIVE Join(_)
Join(texts) ==
    IF texts = <<>> THEN <<>>
    ELSE IF Len(texts) = 1 THEN Head(texts)
    ELSE Head(texts) \o <<SP>> \o Join(Tail(texts))

\* String.prototype.trim: leading and trailing blanks removed.
RECURSIVE TrimLeft(_)
TrimLeft(t) ==
    IF t # <<>> /\ Head(t) = SP THEN TrimLeft(Tail(t)) ELSE t

RECURSIVE TrimRight(_)
TrimRight(t) ==
    IF t # <<>> /\ t[Len(t)] = SP THEN TrimRight(SubSeq(t, 1, Len(t) - 1)) ELSE t

Trim(t) == TrimRight(TrimLeft(t))

\* /\b(w1|w2|...)\b/.test(t) on a lower-cased text: some word of the
\* text is one of the keywords.
HasWord(t, words) == \E i \in 1..Len(t) : Lower(t[i]) \in words

ScheduleWords == {"schedule", "interview", "book", "appointment"}
InfoWords == {"hours", "when", "open", "close", "location", "address"}
GreetingWords == {"hi", "hello", "hey"}

\* (mutant) a rule list that tests the info keywords first
classifyIntentInfoFirst(text) ==
    IF HasWord(text, InfoWords) THEN "info"
    ELSE IF HasWord(text, ScheduleWords) THEN "schedule_interview"
    ELSE IF HasWord(text, GreetingWords) THEN "greeting"
    ELSE "unknown"

classifyIntent(text) ==
    IF HasWord(text, ScheduleWords) THEN "schedule_interview"
    ELSE IF HasWord(text, InfoWords) THEN "info"
    ELSE IF HasWord(text, GreetingWords) THEN "greeting"
    ELSE "unknown"

emotionToTone(v, emotion) ==
    LET e == Lower(emotion) IN
    IF v = "server"
    THEN CASE e = "angry" -> "calm and steady"
           [] e = "sad" -> "soft and caring"
           [] e = "excited" -> "upbeat and energetic"
           [] OTHER -> "friendly and natural"
    ELSE CASE e = "angry" -> "firm and calm"
           [] e = "sad" -> "soft and empathetic"
           [] e = "excited" -> "upbeat and energetic"
           [] OTHER -> "friendly and conversational"

\* The system prompt: the fixed persona text with the tone put in, and in
\* the unnamed revisions an instruction chosen by the intent.
systemPrompt(v, tone, intent) ==
    <<"PROMPT", tone>> \o
    (IF v = "server" THEN <<>>
     ELSE IF intent = "schedule_interview" THEN <<"schedule_hint">>
     ELSE IF intent = "info" THEN <<"info_hint">>
     ELSE <<>>)

\* ------------------------------------------------------------- ledger
\* A MemoryEntry.  `turn` is not a field of the stored object: it tags the
\* entry with the turn of its Call that wrote it (0: the webhook), so that
\* properties can tell the turns apart.
Entry(role, content, turn) == [role |-> role, content |-> content, turn |-> turn]

\* A LogEvent: the event tag and the payload fields the revisions write.
LogEvent(event, text, flag) == [event |-> event, text |-> text, flag |-> flag]

\* What the inference backend is sent for one memory entry.
Msg(role, content) == [role |-> role, content |-> content]

RECURSIVE MapMsgs(_)
MapMsgs(mem) ==
    IF mem = <<>> THEN <<>>
    ELSE <<Msg(Head(mem).role, Head(mem).content)>> \o MapMsgs(Tail(mem))

\* input: [system prompt, ...memory, current user text]
BuildInput(prompt, mem, text) ==
    <<Msg("system", prompt)>> \o MapMsgs(mem) \o <<Msg("user", text)>>

\* ------------------------------------------------------------- response
RECURSIVE SelectParts(_, _)
SelectParts(output, type) ==
    IF output = <<>> THEN <<>>
    ELSE (IF Head(output).type = type THEN <<Head(output)>> ELSE <<>>)
         \o SelectParts(Tail(output), type)

RECURSIVE Contents(_)
Contents(output) ==
    IF output = <<>> THEN <<>>
    ELSE <<Head(output).content>> \o Contents(Tail(output))

\* part_000: o.content ? o.content : (o.type === "output_text" ? o.text : "")
RECURSIVE ContentsOrText(_)
ContentsOrText(output) ==
    IF output = <<>> THEN <<>>
    ELSE <<IF Head(output).content # <<>> THEN Head(output).content
           ELSE IF Head(output).type = "output_text" THEN Head(output).text
           ELSE <<>> >>
         \o ContentsOrText(Tail(output))

\* The assistant text extracted from a response.
assistantTextOf(v, resp) ==
    IF v = "server"
    THEN IF resp.hasOutput
         THEN Join(Contents(SelectParts(resp.output, "output_text")))
         ELSE <<>>
    ELSE IF v = "part000"
    THEN Trim(Join(ContentsOrText(IF resp.hasOutput THEN resp.output ELSE <<>>)))
    ELSE IF resp.hasOutput THEN Join(Contents(resp.output)) ELSE <<>>

\* First index of a part satisfying the test, 0 when there is none.
FirstOfType(output, type) ==
    IF \E i \in 1..Len(output) : output[i].type = type
    THEN CHOOSE i \in 1..Len(output) :
            /\ output[i].type = type
            /\ \A j \in 1..(i - 1) : output[j].type # type
    ELSE 0

\* part_000's loop: the first part that is of type "audio" or has .audio
\* ends the search and supplies its content, respectively its audio.
LoopAudio(output) ==
    LET hit(i) == output[i].type = "audio" \/ output[i].audio # <<>>
    IN IF \E i \in 1..Len(output) : hit(i)
       THEN LET k == CHOOSE i \in 1..Len(output) :
                        hit(i) /\ \A j \in 1..(i - 1) : ~hit(j)
            IN IF output[k].type = "audio" THEN output[k].content
               ELSE output[k].audio
       ELSE <<>>

\* The audio extracted from a response (<<>>: none).
audioBlobOf(v, resp) ==
    LET out == resp.output
        first == IF resp.hasOutput /\ out # <<>> THEN out[1].audio ELSE <<>>
    IN IF v = "server"
       THEN LET k == FirstOfType(out, "output_audio")
            IN IF k = 0 THEN <<>> ELSE out[k].audio
       ELSE IF v = "part000"
       THEN LET a == IF resp.hasOutput THEN LoopAudio(out) ELSE <<>>
            IN IF a # <<>> THEN a ELSE first
       ELSE LET k == IF resp.hasOutput THEN FirstOfType(out, "audio") ELSE 0
                c == IF k = 0 THEN <<>> ELSE out[k].content
            IN IF c # <<>> THEN c ELSE first

\* server.js reads resp.output.find without a guard: a response without
\* output throws there, after the assistant entry was saved.
ThrowsAfterMerge(v, resp) == v = "server" /\ ~resp.hasOutput

\* The frames the bridge sends.
OutFrame(event, body) == [event |-> event, body |-> body]
Apology == OutFrame("assistant_text", <<"apology">>)
AudioFallbackText == <<"audio_trouble">>

\* the value of probe while no function has been applied alone
NoProbe == [fn |-> "", done |-> FALSE]

\* ------------------------------------------------------------- state
VARIABLES
    variant,        \* which revision of the server runs
    conn,           \* conn[c]: "idle" (not yet connected), "open", "closed"
    callId,         \* callId[c]: the connection callback's const callId
    nextUuid,       \* how many values uuidv4() has returned, plus one
    lastEmotion,    \* lastEmotion[c]: the connection callback's let lastEmotion
    memory,         \* memory[id]: the content of MEMORY_PATH/<id>.json
    log,            \* log[id]: the lines of LOG_PATH/<id>.json (.log)
    pending,        \* pending[c]: the handleUserSpeech runs awaiting the backend
    sent,           \* sent[c]: the frames ws.send wrote to the open socket
    sendAfterClose, \* sendAfterClose[c]: ws.send calls made on the closed socket
    turns,          \* turns[c]: user_speech frames that got as far as saveMemory
    stopSeen,       \* stopSeen[c]: a stop or call_end frame was processed
    ninbound,       \* frames delivered and webhook requests served so far
    unhandled,      \* rejections that left a message callback uncaught
    mediaSeen,      \* mediaSeen[c]: media frames the message callback ran for
    probe           \* the argument and the result of a function applied alone

vars == <<variant, conn, callId, nextUuid, lastEmotion, memory, log, pending,
          sent, sendAfterClose, turns, stopSeen, ninbound, unhandled,
          mediaSeen, probe>>

\* fs.appendFileSync(file, JSON.stringify(obj) + "\n")
writeCallLog(lg, id, ev) == [lg EXCEPT ![id] = Append(@, ev)]

\* read the file (or []), push the entry, write the file back
saveMemory(mem, id, entry) == [mem EXCEPT ![id] = Append(@, entry)]

\* the parsed file, [] when there is none
getMemory(mem, id) == mem[id]

\* (mutant) an identifier generator that returns the same value every time
uuidReused == <<"uuid", 1>>

\* uuidv4(): a value no earlier call returned
uuidv4 == <<"uuid", nextUuid>>

\* ws.send(frame): written when the socket is open; on a closed socket the
\* call returns without writing and without throwing (no callback given).
wsSend(c, frames) ==
    IF conn[c] = "open"
    THEN /\ sent' = [sent EXCEPT ![c] = @ \o frames]
         /\ UNCHANGED sendAfterClose
    ELSE /\ sendAfterClose' = [sendAfterClose EXCEPT ![c] = @ + Len(frames)]
         /\ UNCHANGED sent

\* The server after start-up: no connection, no memory or log file.
InitIdle ==
    /\ variant \in Variants
    /\ conn = [c \in Conns |-> "idle"]
    /\ callId = [c \in Conns |-> NoId]
    /\ nextUuid = 1
    /\ lastEmotion = [c \in Conns |-> "neutral"]
    /\ memory = [id \in CallIds |-> <<>>]
    /\ log = [id \in CallIds |-> <<>>]
    /\ pending = [c \in Conns |-> {}]
    /\ sent = [c \in Conns |-> <<>>]
    /\ sendAfterClose = [c \in Conns |-> 0]
    /\ turns = [c \in Conns |-> 0]
    /\ stopSeen = [c \in Conns |-> FALSE]
    /\ ninbound = 0
    /\ unhandled = 0
    /\ mediaSeen = [c \in Conns |-> 0]

Init == InitIdle /\ probe = NoProbe

\* ------------------------------------------------------------- webhook
\* app.post("/incoming"): sid = 0 is a body without CallSid.
Incoming(sid) ==
    /\ ninbound < MaxInbound
    /\ LET id == IF sid # 0 THEN <<"sid", sid>> ELSE uuidv4
           ev == IF variant = "server" THEN "incoming_call" ELSE "incoming"
           seed == IF variant = "part000" THEN <<"call started">>
                   ELSE <<"Call started">>
       IN /\ log' = writeCallLog(log, id, LogEvent(ev, <<>>, ""))
          /\ memory' = saveMemory(memory, id, Entry("system", seed, 0))
          /\ nextUuid' = IF sid # 0 THEN nextUuid ELSE nextUuid + 1
    /\ ninbound' = ninbound + 1
    /\ UNCHANGED <<variant, conn, callId, lastEmotion, pending, sent,
                   sendAfterClose, turns, stopSeen, unhandled, mediaSeen, probe>>

\* ------------------------------------------------------------- connection
\* wss.on("connection"): a fresh callId, the ws_connect log line, and the
\* per-connection state.
Connect(c) ==
    /\ conn[c] = "idle"
    /\ \A d \in Conns : d < c => conn[d] # "idle"
    /\ conn' = [conn EXCEPT ![c] = "open"]
    /\ callId' = [callId EXCEPT ![c] = uuidv4]
    /\ nextUuid' = nextUuid + 1
    /\ log' = writeCallLog(log, uuidv4, LogEvent("ws_connect", <<>>, ""))
    /\ UNCHANGED <<variant, lastEmotion, memory, pending, sent, sendAfterClose,
                   turns, stopSeen, ninbound, unhandled, mediaSeen, probe>>

\* ws.on("close")
Close(c) ==
    /\ conn[c] = "open"
    /\ conn' = [conn EXCEPT ![c] = "closed"]
    /\ log' = writeCallLog(log, callId[c],
                 LogEvent(IF variant = "server" THEN "ws_disconnect" ELSE "ws_close",
                          <<>>, ""))
    /\ UNCHANGED <<variant, callId, nextUuid, lastEmotion, memory, pending, sent,
                   sendAfterClose, turns, stopSeen, ninbound, unhandled,
                   mediaSeen, probe>>

\* ------------------------------------------------------------- frames
\* (mutant) a backend call that blocks the event loop: no frame is delivered
\* while any inference call is outstanding
DeliverableBlocking(c) ==
    conn[c] = "open" /\ \A d \in Conns : pending[d] = {}

\* The 'message' event is emitted for every frame of an open socket as soon
\* as it arrives: the callback is async, the emitter does not wait for the
\* promise it returns, and a pending inference call of this or of another
\* connection leaves the event loop free.
Deliverable(c) == conn[c] = "open"

\* The text handleUserSpeech works with.
SpeechText(v, f) ==
    IF v = "part000" THEN Trim(f.text) ELSE f.text

\* server.js: classifyIntent(undefined) throws on text.toLowerCase(); the
\* rejection is caught by the message callback's try/catch.
SpeechThrows(v, f) == v = "server" /\ ~f.hasText

\* part_000: if (!text) return;
SpeechSkipped(v, f) == v = "part000" /\ Trim(f.text) = <<>>

\* the isFinal value written with the user_speech log line
LoggedFinal(v, f) ==
    IF v = "server" THEN f.isFinal
    ELSE IF v = "part000" THEN (IF f.isFinal = "true" THEN "true" ELSE "false")
    ELSE ""

\* The memory the prompt is built from: server.js reads it before it saves
\* the user entry, the other revisions after.
PromptMemory(v, before, after) == IF v = "server" THEN before ELSE after

\* A handleUserSpeech run suspended at `await client.responses.create`.
Call(turn, text, isFinal, intent, input) ==
    [turn |-> turn, text |-> text, isFinal |-> isFinal, intent |-> intent,
     input |-> input]

\* handleUserSpeech up to the await: the run of one user_speech frame.
UserSpeech(c, f) ==
    LET v == variant
        id == callId[c]
        emo == IF f.emotion # "" THEN f.emotion ELSE lastEmotion[c]
    IN IF SpeechThrows(v, f)
       THEN /\ lastEmotion' = [lastEmotion EXCEPT ![c] = emo]
            /\ UNCHANGED <<memory, log, pending, turns>>
       ELSE IF SpeechSkipped(v, f)
       THEN UNCHANGED <<lastEmotion, memory, log, pending, turns>>
       ELSE LET text == SpeechText(v, f)
                turn == turns[c] + 1
                before == getMemory(memory, id)
                saved == saveMemory(memory, id, Entry("user", text, turn))
                intent == classifyIntent(text)
                tone == emotionToTone(v, emo)
                prompt == systemPrompt(v, tone, intent)
                input == BuildInput(prompt,
                            PromptMemory(v, before, getMemory(saved, id)), text)
            IN /\ lastEmotion' = [lastEmotion EXCEPT ![c] = emo]
               /\ memory' = saved
               /\ log' = writeCallLog(log, id,
                            LogEvent("user_speech", text, LoggedFinal(v, f)))
               /\ pending' = [pending EXCEPT ![c] =
                                @ \cup {Call(turn, text, f.isFinal, intent, input)}]
               /\ turns' = [turns EXCEPT ![c] = turn]

\* The log line (if any) the message callback writes for a frame that is
\* not user_speech: "" when it writes none.
ControlLog(v, f) ==
    IF ~f.json
    THEN (IF v = "part000" THEN "binary_audio" ELSE "")
    ELSE IF v = "server"
    THEN (IF f.event = "stop" THEN "call_end" ELSE "")
    ELSE IF v = "part000"
    THEN CASE f.event = "" -> "unknown_json"
           [] f.event = "start" -> "stream_start"
           [] f.event = "media" -> "media"
           [] f.event = "stop" -> "stream_stop"
           [] f.event = "call_end" -> "call_end"
           [] OTHER -> "other_event"
    ELSE IF v = "part001"
    THEN (IF f.event = "call_end" THEN "call_end" ELSE "ws_message")
    ELSE ""

Control(c, f) ==
    LET ev == ControlLog(variant, f)
    IN /\ log' = IF ev = "" THEN log
                 ELSE writeCallLog(log, callId[c], LogEvent(ev, <<>>, f.event))
       /\ UNCHANGED <<lastEmotion, memory, pending, turns>>

\* ws.on("message"): one frame, up to the first await.
Message(c, f) ==
    /\ Deliverable(c)
    /\ ninbound < MaxInbound
    /\ ninbound' = ninbound + 1
    /\ IF f.json /\ f.event = "user_speech" THEN UserSpeech(c, f) ELSE Control(c, f)
    /\ stopSeen' = [stopSeen EXCEPT ![c] =
                        @ \/ (f.json /\ f.event \in {"stop", "call_end"})]
    /\ mediaSeen' = [mediaSeen EXCEPT ![c] =
                        IF f.json /\ f.event = "media" THEN @ + 1 ELSE @]
    /\ UNCHANGED <<variant, conn, callId, nextUuid, sent, sendAfterClose,
                   unhandled, probe>>

\* ------------------------------------------------------------- inference
\* part_000 stores and logs the answer only when the extracted text is not
\* empty; the other revisions always do.
Merged(v, text) == v # "part000" \/ text # <<>>

\* the log line written with the assistant entry
AnswerEvent(v, call, text) ==
    LogEvent(IF v \in {"server", "part000"} THEN "assistant_text"
             ELSE "assistant_response",
             text, IF v = "part001" THEN call.intent ELSE "")

\* the log lines written after the assistant entry's
SendLog(v, resp, audio) ==
    IF ThrowsAfterMerge(v, resp) THEN <<LogEvent("openai_error", <<>>, "")>>
    ELSE IF v = "part000" /\ audio # <<>>
    THEN <<LogEvent("sent_audio", <<>>, "")>>
    ELSE <<>>

\* the frames handed to ws.send after a resolved call
ReplyFrames(v, resp, text, audio) ==
    IF ThrowsAfterMerge(v, resp) THEN <<Apology>>
    ELSE IF audio # <<>> THEN <<OutFrame("assistant_audio", audio)>>
    ELSE IF v = "server" THEN <<>>
    ELSE IF v = "part000"
    THEN <<OutFrame("assistant_text",
                    IF text # <<>> THEN text ELSE AudioFallbackText)>>
    ELSE <<OutFrame("assistant_text", text)>>

\* The continuation of handleUserSpeech when the call resolves with resp.
Resolved(c, call, resp) ==
    LET v == variant
        id == callId[c]
        text == assistantTextOf(v, resp)
        audio == audioBlobOf(v, resp)
        merged == Merged(v, text)
        afterText == IF merged THEN <<AnswerEvent(v, call, text)>> ELSE <<>>
    IN /\ call \in pending[c]
       /\ pending' = [pending EXCEPT ![c] = @ \ {call}]
       /\ memory' = IF merged
                    THEN saveMemory(memory, id, Entry("assistant", text, call.turn))
                    ELSE memory
       /\ log' = [log EXCEPT ![id] = @ \o afterText \o SendLog(v, resp, audio)]
       /\ wsSend(c, ReplyFrames(v, resp, text, audio))
       /\ UNCHANGED <<variant, conn, callId, nextUuid, lastEmotion, turns,
                      stopSeen, ninbound, unhandled, mediaSeen, probe>>

\* The catch block's log line: part_002 writes none.
FailureLog(v) ==
    IF v = "part002" THEN <<>> ELSE <<LogEvent("openai_error", <<>>, "")>>

\* The continuation when the call rejects (error or timeout of the client).
Rejected(c, call) ==
    /\ call \in pending[c]
    /\ pending' = [pending EXCEPT ![c] = @ \ {call}]
    /\ log' = [log EXCEPT ![callId[c]] = @ \o FailureLog(variant)]
    /\ wsSend(c, <<Apology>>)
    /\ UNCHANGED <<variant, conn, callId, nextUuid, lastEmotion, memory, turns,
                   stopSeen, ninbound, unhandled, mediaSeen, probe>>

\* One step of the server with the frames drawn from F and the backend's
\* responses from R.
NextOver(F, R) ==
    \/ \E sid \in CallSids \cup {0} : Incoming(sid)
    \/ \E c \in Conns : Connect(c)
    \/ \E c \in Conns : Close(c)
    \/ \E c \in Conns, f \in F : Message(c, f)
    \/ \E c \in Conns : \E call \in pending[c], resp \in R : Resolved(c, call, resp)
    \/ \E c \in Conns : \E call \in pending[c] : Rejected(c, call)

\* The frames of the turn-taking runs: the user_speech frames that carry
\* words (a final and a partial one), a media frame and the two
\* terminating control events.
TurnFrames ==
    {f \in SpeechFrames : f.hasText /\ Trim(f.text) # <<>>}
    \cup {f \in ControlFrames : f.event \in {"media", "stop", "call_end"}}

Next == NextOver(TurnFrames, Responses)

Spec == Init /\ [][Next]_vars

\* ------------------------------------------------------------- storage faults
\* What can be wrong with a Call's memory file while a callback runs: its
\* content cannot be read or parsed, or the file cannot be written.
Faults == {"unreadable", "unwritable"}

\* saveMemory on a faulty file: whether the call threw and what is stored
\* afterwards.  Without a file nothing is read.  part_000 catches the failed
\* read and starts from [], so the write replaces the file's entries.
saveMemoryFaulty(v, mem, id, entry, fault) ==
    IF fault = "unreadable" /\ mem[id] = <<>>
    THEN [threw |-> FALSE, mem |-> saveMemory(mem, id, entry)]
    ELSE IF fault = "unreadable" /\ v = "part000"
    THEN [threw |-> FALSE, mem |-> [mem EXCEPT ![id] = <<entry>>]]
    ELSE [threw |-> TRUE, mem |-> mem]

\* getMemory on a faulty file: part_000 catches the failed read and returns [].
getMemoryFaulty(v, mem, id, fault) ==
    IF fault = "unreadable" /\ mem[id] # <<>>
    THEN (IF v = "part000" THEN [threw |-> FALSE, mem |-> <<>>]
          ELSE [threw |-> TRUE, mem |-> <<>>])
    ELSE [threw |-> FALSE, mem |-> getMemory(mem, id)]

\* handleUserSpeech up to the await when the memory file is faulty.
\* server.js has set lastEmotion before its first storage call throws; in
\* part_001 and part_002 saveMemory is the first statement after the text.
\* These three await handleUserSpeech inside the message callback's try, so
\* the rejection ends in console.warn.  part_000 awaits it outside any try:
\* the callback's promise rejects with nobody to catch it.
UserSpeechFaulty(c, f, fault) ==
    LET v == variant
        id == callId[c]
        emo == IF f.emotion # "" THEN f.emotion ELSE lastEmotion[c]
        text == SpeechText(v, f)
        turn == turns[c] + 1
        read == getMemoryFaulty(v, memory, id, fault)
        saved == saveMemoryFaulty(v, memory, id, Entry("user", text, turn), fault)
        threw == IF v = "server" THEN read.threw \/ saved.threw ELSE saved.threw
        input == BuildInput(systemPrompt(v, emotionToTone(v, emo),
                                         classifyIntent(text)),
                     PromptMemory(v, read.mem, getMemory(saved.mem, id)), text)
    IN IF threw
       THEN /\ lastEmotion' = IF v = "server"
                              THEN [lastEmotion EXCEPT ![c] = emo]
                              ELSE lastEmotion
            /\ unhandled' = IF v = "part000" THEN unhandled + 1 ELSE unhandled
            /\ UNCHANGED <<memory, log, pending, turns>>
       ELSE /\ lastEmotion' = [lastEmotion EXCEPT ![c] = emo]
            /\ memory' = saved.mem
            /\ log' = writeCallLog(log, id,
                         LogEvent("user_speech", text, LoggedFinal(v, f)))
            /\ pending' = [pending EXCEPT ![c] =
                             @ \cup {Call(turn, text, f.isFinal,
                                          classifyIntent(text), input)}]
            /\ turns' = [turns EXCEPT ![c] = turn]
            /\ UNCHANGED unhandled

\* ws.on("message") for a user_speech frame with words while the Call's
\* memory file is faulty.
MessageFaulty(c, f, fault) ==
    /\ Deliverable(c)
    /\ ninbound < MaxInbound
    /\ f.json /\ f.event = "user_speech" /\ f.hasText /\ Trim(f.text) # <<>>
    /\ fault = "unreadable" => memory[callId[c]] # <<>>
    /\ ninbound' = ninbound + 1
    /\ UserSpeechFaulty(c, f, fault)
    /\ UNCHANGED <<variant, conn, callId, nextUuid, sent, sendAfterClose,
                   stopSeen, mediaSeen, probe>>

\* The continuation of handleUserSpeech when the call resolves with resp and
\* the memory file is faulty: a saveMemory that throws inside the try lands
\* in the catch block, like a rejected call.
ResolvedFaulty(c, call, resp, fault) ==
    LET v == variant
        id == callId[c]
        text == assistantTextOf(v, resp)
        audio == audioBlobOf(v, resp)
        saved == saveMemoryFaulty(v, memory, id,
                                  Entry("assistant", text, call.turn), fault)
    IN /\ call \in pending[c]
       /\ Merged(v, text)
       /\ pending' = [pending EXCEPT ![c] = @ \ {call}]
       /\ memory' = saved.mem
       /\ IF saved.threw
          THEN /\ log' = [log EXCEPT ![id] = @ \o FailureLog(v)]
               /\ wsSend(c, <<Apology>>)
          ELSE /\ log' = [log EXCEPT ![id] = @ \o <<AnswerEvent(v, call, text)>>
                                               \o SendLog(v, resp, audio)]
               /\ wsSend(c, ReplyFrames(v, resp, text, audio))
       /\ UNCHANGED <<variant, conn, callId, nextUuid, lastEmotion, turns,
                      stopSeen, ninbound, unhandled, mediaSeen, probe>>

\* The server with a disk that can fail under it.
NextFaults ==
    \/ Next
    \/ \E c \in Conns, f \in TurnFrames, fault \in Faults : MessageFaulty(c, f, fault)
    \/ \E c \in Conns : \E call \in pending[c], resp \in Responses, fault \in Faults :
          ResolvedFaulty(c, call, resp, fault)

SpecFaults == Init /\ [][NextFaults]_vars

\* ------------------------------------------------------------- extraction alone
\* The longest resp.output of the extraction runs.
MaxParts == 2

\* The parts of the extraction runs: of type "audio", "output_audio" or
\* something else, with or without content, with or without an audio field.
AudioParts ==
    {Part(type, content, audio, <<>>) :
        type \in {"audio", "output_audio", "message"},
        content \in {<<>>, <<"c">>},
        audio \in {<<>>, <<"a">>}}

ExtractResponses ==
    {Resp(FALSE, <<>>)}
    \cup {Resp(TRUE, out) : out \in UNION {[1..n -> AudioParts] : n \in 0..MaxParts}}

\* The audio-extraction code of handleUserSpeech is about to run on a response.
InitExtract ==
    /\ InitIdle
    /\ probe \in {[fn |-> "audioBlob", done |-> FALSE, resp |-> r,
                   audio |-> <<>>, log |-> <<>>] : r \in ExtractResponses}

\* The audio-extraction code runs: the blob it found and the log lines it wrote.
ExtractAudio ==
    /\ probe.fn = "audioBlob" /\ ~probe.done
    /\ probe' = [probe EXCEPT
                   !.done = TRUE,
                   !.audio = audioBlobOf(variant, probe.resp),
                   !.log = SendLog(variant, probe.resp,
                                   audioBlobOf(variant, probe.resp))]
    /\ UNCHANGED <<variant, conn, callId, nextUuid, lastEmotion, memory, log,
                   pending, sent, sendAfterClose, turns, stopSeen, ninbound,
                   unhandled, mediaSeen>>

NextExtract == ExtractAudio

SpecExtract == InitExtract /\ [][NextExtract]_vars

\* ------------------------------------------------------------- classification alone
\* The longest text of the classification runs, in tokens.
MaxWords == 2

\* The tokens of those texts: keywords of each rule (two of them with a
\* capital), a word that only begins with a keyword, a word that is no
\* keyword, and the blank.
ClassifyWords ==
    {"Book", "appointment", "when", "open", "hi", "Hi", "booking", "please", SP}

ClassifyTexts == UNION {[1..n -> ClassifyWords] : n \in 0..MaxWords}

\* classifyIntent is about to be called on a text.
InitClassify ==
    /\ InitIdle
    /\ probe \in {[fn |-> "classifyIntent", done |-> FALSE, text |-> t,
                   intent |-> "", again |-> ""] : t \in ClassifyTexts}

\* classifyIntent is called on the text, twice.
Classify ==
    /\ probe.fn = "classifyIntent" /\ ~probe.done
    /\ probe' = [probe EXCEPT
                   !.done = TRUE,
                   !.intent = classifyIntent(probe.text),
                   !.again = classifyIntent(probe.text)]
    /\ UNCHANGED <<variant, conn, callId, nextUuid, lastEmotion, memory, log,
                   pending, sent, sendAfterClose, turns, stopSeen, ninbound,
                   unhandled, mediaSeen>>

NextClassify == Classify

SpecClassify == InitClassify /\ [][NextClassify]_vars

\* ------------------------------------------------------------- properties
UserEntries(mem) == {p \in 1..Len(mem) : mem[p].role = "user"}

\* The position of the user entry turn t of connection c wrote (0: none).
UserPos(c, t) ==
    LET mem == memory[callId[c]]
        hits == {p \in UserEntries(mem) : mem[p].turn = t}
    IN IF hits = {} THEN 0 ELSE CHOOSE p \in hits : TRUE

\* C1: single-flight per Call.  In every reachable state at most one
\* inference call is outstanding for a connection, so a second turn is
\* not dispatched while the first one's call is still pending.
C1_SingleFlight ==
    \A c \in Conns : Cardinality(pending[c]) <= 1

\* Two inference calls of one connection are outstanding at once.
C1_TwoInFlight ==
    \E c \in Conns : Cardinality(pending[c]) = 2

\* C2: memory order is turn order.  The user entry of a turn is in memory
\* while its call is pending (it was appended before the dispatch), an
\* assistant entry follows the user entry of its own turn, and the entries
\* of an earlier turn all precede the entries of a later turn: the turn
\* tags of a Call's entries never decrease.
C2_MemoryOrder ==
    /\ \A c \in Conns : \A call \in pending[c] : UserPos(c, call.turn) # 0
    /\ \A id \in CallIds : \A p, q \in 1..Len(memory[id]) :
          p < q => memory[id][p].turn <= memory[id][q].turn

\* A Call's memory holds user_1, user_2, assistant_2, assistant_1.
C2_Interleaved ==
    \E id \in CallIds :
        /\ Len(memory[id]) = 4
        /\ memory[id][3].turn = 2 /\ memory[id][3].role = "assistant"
        /\ memory[id][4].turn = 1 /\ memory[id][4].role = "assistant"

\* C3: the input of every dispatched call is the system prompt, then the
\* Call's memory as it stood before this turn's user entry, in stored
\* order, then the current user text, once.
C3_PromptIsSnapshot ==
    \A c \in Conns : \A call \in pending[c] :
        LET mem == memory[callId[c]]
            p == UserPos(c, call.turn)
            n == Len(call.input)
        IN /\ p # 0
           /\ n = p + 1
           /\ call.input[1].role = "system"
           /\ SubSeq(call.input, 2, n - 1) = MapMsgs(SubSeq(mem, 1, p - 1))
           /\ call.input[n] = Msg("user", call.text)

\* A call is pending whose input holds the current user text twice.
C3_UserTextTwice ==
    \E c \in Conns : \E call \in pending[c] :
        LET n == Len(call.input)
        IN n >= 3 /\ call.input[n - 1] = call.input[n]

\* C4: when the inference call of a turn fails, the user entry stays in
\* memory, exactly one frame, the apology, is handed to ws.send, an
\* openai_error event is appended to the Call's log, and the connection is
\* left as it was, so that later frames are still delivered.
C4_FailureAdvances ==
    [][\A c \in Conns : \A call \in pending[c] :
          Rejected(c, call) =>
            /\ memory' = memory
            /\ UserPos(c, call.turn) # 0
            /\ IF conn[c] = "open"
               THEN sent'[c] = Append(sent[c], Apology)
               ELSE sendAfterClose'[c] = sendAfterClose[c] + 1
            /\ log'[callId[c]] =
                 Append(log[callId[c]], LogEvent("openai_error", <<>>, ""))
            /\ conn' = conn
            /\ (Deliverable(c) => Deliverable(c)')]_vars

\* A call failed on an open connection and the apology is the only frame.
C4_ApologySent ==
    \E c \in Conns :
        /\ conn[c] = "open" /\ turns[c] = 1 /\ pending[c] = {}
        /\ sent[c] = <<Apology>>

\* C5: no send is attempted on a connection once its close was observed.
C5_NoSendAfterClose ==
    \A c \in Conns : sendAfterClose[c] = 0

\* A reply was handed to ws.send after the close callback ran.
C5_SentAfterClose ==
    \E c \in Conns : conn[c] = "closed" /\ sendAfterClose[c] > 0

\* The events under which the revisions log the backend's answer.
AnswerEvents == {"assistant_text", "assistant_response"}

\* C6: a close does not cancel a pending call.  When the call of a closed
\* connection returns successfully, the assistant entry of its turn is
\* appended to the Call's memory and the answer is appended to its log.
C6_MergedAfterClose ==
    [][\A c \in Conns : \A call \in pending[c], resp \in Responses :
          (conn[c] = "closed" /\ Resolved(c, call, resp)) =>
            LET id == callId[c]
                n == Len(memory[id])
                k == Len(log[id])
            IN /\ Len(memory'[id]) = n + 1
               /\ SubSeq(memory'[id], 1, n) = memory[id]
               /\ memory'[id][n + 1].role = "assistant"
               /\ memory'[id][n + 1].turn = call.turn
               /\ Len(log'[id]) > k
               /\ SubSeq(log'[id], 1, k) = log[id]
               /\ log'[id][k + 1].event \in AnswerEvents]_vars

\* The answer of a call was merged after the connection had closed: the
\* close event is in the log before the answer, the assistant entry in memory.
C6_AnswerAfterClose ==
    \E c \in Conns :
        LET lg == log[callId[c]]
            mem == memory[callId[c]]
        IN /\ conn[c] = "closed"
           /\ \E i, j \in 1..Len(lg) :
                 /\ i < j
                 /\ lg[i].event \in {"ws_disconnect", "ws_close"}
                 /\ lg[j].event \in AnswerEvents
           /\ \E p \in 1..Len(mem) : mem[p].role = "assistant"

\* C7: a user_speech frame whose isFinal is not true never flushes a turn:
\* it appends no memory entry, dispatches no inference call and emits no
\* frame.
C7_PartialNeverFlushes ==
    [][\A c \in Conns, f \in TurnFrames :
          (f.event = "user_speech" /\ f.isFinal # "true" /\ Message(c, f))
            => UNCHANGED <<memory, pending, sent>>]_vars

\* A call dispatched for a partial fragment is pending.
C7_PartialFlushed ==
    \E c \in Conns : \E call \in pending[c] : call.isFinal = "false"

\* C8: ended is terminal.  Once a stop or call_end frame, or the close, of
\* a connection has been processed, no step flushes a turn of its Call:
\* no call is dispatched and no user entry is appended.
C8_EndedIsTerminal ==
    [][\A c \in Conns :
          (stopSeen[c] \/ conn[c] = "closed") =>
            /\ pending'[c] \subseteq pending[c]
            /\ turns'[c] = turns[c]
            /\ UserEntries(memory'[callId[c]]) = UserEntries(memory[callId[c]])]_vars

\* A turn was flushed after the stop or call_end frame of its connection.
C8_TurnAfterStop ==
    \E c \in Conns :
        LET lg == log[callId[c]]
        IN /\ stopSeen[c]
           /\ \E i, j \in 1..Len(lg) :
                 /\ i < j
                 /\ lg[i].event \in {"call_end", "stream_stop"}
                 /\ lg[j].event = "user_speech"

\* C9: no head-of-line blocking across Calls.  While a call of connection a
\* is pending, every step of another connection b stays possible: each
\* frame is delivered to b while b is open (and the run has frames left),
\* and each pending call of b can resolve or reject.
C9_NoHeadOfLineBlocking ==
    \A a, b \in Conns :
        (a # b /\ pending[a] # {}) =>
            /\ (conn[b] = "open" /\ ninbound < MaxInbound) =>
                  \A f \in TurnFrames : ENABLED Message(b, f)
            /\ \A call \in pending[b] :
                  /\ ENABLED Rejected(b, call)
                  /\ \A resp \in Responses : ENABLED Resolved(b, call, resp)

\* b's turn was flushed, answered and replied to while a's call is pending.
C9_ReplyWhileOtherPending ==
    \E a, b \in Conns :
        /\ a # b
        /\ pending[a] # {}
        /\ turns[b] = 1 /\ pending[b] = {} /\ Len(sent[b]) = 1

\* What connection c's callbacks do in a step.
ConnStep(c) ==
    \/ Connect(c)
    \/ Close(c)
    \/ \E f \in TurnFrames : Message(c, f)
    \/ \E call \in pending[c], resp \in Responses : Resolved(c, call, resp)
    \/ \E call \in pending[c] : Rejected(c, call)

\* C10: cross-call isolation.  No two connections have the same Call
\* identifier, and a step of one connection's callbacks changes the memory
\* and the log of that connection's Call only.
C10_Isolation ==
    [][/\ \A a, b \in Conns :
             (a # b /\ conn'[a] # "idle" /\ conn'[b] # "idle")
                => callId'[a] # callId'[b]
       /\ \A c \in Conns : ConnStep(c) =>
             \A id \in CallIds \ {callId'[c]} :
                 memory'[id] = memory[id] /\ log'[id] = log[id]]_vars

\* Both connections have had a turn answered, each into its own record.
C10_TwoCallsServed ==
    /\ \A c \in Conns : turns[c] = 1 /\ pending[c] = {}
    /\ callId[1] # callId[2]
    /\ \A c \in Conns : UserEntries(memory[callId[c]]) # {}

\* The log of connection c's Call gains, in this step, a line that is not
\* one of an ordinary turn's (user_speech, the answer, sent_audio).
ErrorLogged(c) ==
    LET id == callId[c]
    IN \E i \in (Len(log[id]) + 1)..Len(log'[id]) :
          log'[id][i].event \notin {"user_speech", "sent_audio"} \cup AnswerEvents

\* C11: a persistence failure does not abort the turn's reply.  When the
\* Call's memory file cannot be read or written while a user_speech frame is
\* handled, the inference call is dispatched all the same and the failure is
\* written to the Call's log; when it fails while the answer is stored, a
\* frame is still handed to the socket and the failure is logged.
C11_PersistenceNotBlocking ==
    [][\A c \in Conns, fault \in Faults :
          /\ \A f \in TurnFrames : MessageFaulty(c, f, fault) =>
                pending'[c] # pending[c] /\ ErrorLogged(c)
          /\ \A call \in pending[c], resp \in Responses :
                ResolvedFaulty(c, call, resp, fault) =>
                   /\ sent'[c] # sent[c] \/ sendAfterClose'[c] # sendAfterClose[c]
                   /\ ErrorLogged(c)]_vars

\* server.js took the emotion of a user_speech frame that carries words and
\* then lost the turn: no entry, no log line, no call, no frame.
C11_TurnLostToStorage ==
    /\ variant = "server"
    /\ \E c \in Conns :
          /\ lastEmotion[c] = "angry"
          /\ conn[c] = "open" /\ turns[c] = 0 /\ pending[c] = {}
          /\ memory[callId[c]] = <<>> /\ Len(log[callId[c]]) = 1
          /\ sent[c] = <<>>

\* C12: no failure inside one Call escapes its handler.  Whatever throws
\* while a frame is handled (a failed memory write included) is caught
\* inside the message callback: no rejection leaves it unhandled.
C12_NoEscape == unhandled = 0

\* A failed write of the memory file rejected a message callback's promise
\* while another connection was open.
C12_RejectionEscaped ==
    /\ unhandled = 1
    /\ \E a, b \in Conns : a # b /\ conn[a] = "open" /\ conn[b] = "open"

\* ------------------------------------------------------------- malformed frames
\* A frame the server cannot use as a turn: not JSON, or a user_speech
\* object without its text.
Malformed(f) == ~f.json \/ (f.event = "user_speech" /\ ~f.hasText)

\* The frames of the runs about malformed input: the malformed ones and one
\* well-formed user_speech frame.
MalformedFrames ==
    {f \in Frames : Malformed(f)}
    \cup {f \in SpeechFrames : f.hasText /\ Trim(f.text) # <<>> /\ f.emotion = ""}

NextMalformed == NextOver(MalformedFrames, Responses)

SpecMalformed == Init /\ [][NextMalformed]_vars

\* C13: a malformed frame is logged and dropped.  The message callback run
\* of a frame that is not JSON, or of a user_speech frame without text,
\* appends one line to the Call's log and changes nothing else: no memory
\* entry, no inference call, no outbound frame, no change of the Call's
\* state, and the connection stays open.
C13_MalformedDropped ==
    [][\A c \in Conns : \A f \in MalformedFrames :
          (Malformed(f) /\ Message(c, f)) =>
             /\ Len(log'[callId[c]]) = Len(log[callId[c]]) + 1
             /\ memory' = memory /\ pending' = pending /\ turns' = turns
             /\ sent' = sent /\ sendAfterClose' = sendAfterClose
             /\ lastEmotion' = lastEmotion
             /\ conn' = conn]_vars

\* After a frame that was not JSON (logged by part_000 as binary_audio) a
\* well-formed user_speech frame of the same connection was handled.
C13_HandledAfterMalformed ==
    \E c \in Conns :
        LET lg == log[callId[c]]
        IN /\ conn[c] = "open" /\ turns[c] = 1
           /\ \E i, j \in 1..Len(lg) :
                 i < j /\ lg[i].event = "binary_audio" /\ lg[j].event = "user_speech"

\* ------------------------------------------------------------- media and time
\* The promise of client.responses.create settles: with a response, with an
\* error, or with the client's request timeout.
Settle(c) ==
    \E call \in pending[c] :
        Rejected(c, call) \/ \E resp \in Responses : Resolved(c, call, resp)

\* The frames of the runs about media batching: the stream's start frame,
\* a media fragment and one user_speech frame.
MediaFrames ==
    {f \in ControlFrames : f.json /\ f.event \in {"start", "media"}}
    \cup {f \in SpeechFrames : f.hasText /\ Trim(f.text) # <<>> /\ f.emotion = ""}

NextMedia == NextOver(MediaFrames, Responses)

\* Every callback that is due runs; no frame is ever owed by the caller, so
\* a behaviour may end in silence after any frame.
SpecMedia == Init /\ [][NextMedia]_vars /\ \A c \in Conns : WF_vars(Settle(c))

\* n media fragments in arrival order
MediaPayload(n) == [i \in 1..n |-> "media"]

\* The fragments connection c received were flushed as one turn.
MediaFlushed(c) ==
    /\ conn[c] # "idle"
    /\ LET mem == memory[callId[c]]
       IN \E p \in UserEntries(mem) : mem[p].content = MediaPayload(mediaSeen[c])

\* C14: time-windowed batching of media.  The media fragments that arrive on
\* a connection are accumulated and, once the silence after the last of them
\* has lasted longer than the threshold, flushed as one turn that holds
\* exactly those fragments: whenever fragments have arrived, a turn with
\* them as its payload eventually exists.
C14_MediaEventuallyFlushed ==
    \A c \in Conns : (mediaSeen[c] > 0) ~> MediaFlushed(c)

\* A connection received the start frame and then a media fragment
\* (part_000 logs both), and nothing is pending on it.
C14_MediaAfterStart ==
    \E c \in Conns :
        LET lg == log[callId[c]]
        IN /\ conn[c] = "open" /\ mediaSeen[c] = 1 /\ pending[c] = {}
           /\ Len(lg) = 3
           /\ lg[2].event = "stream_start" /\ lg[3].event = "media"

\* C15: always some reply.  The continuation of a call that resolved hands
\* exactly one frame to the socket: assistant_audio when audio was extracted
\* from the response, otherwise assistant_text.
C15_ExactlyOneReply ==
    [][\A c \in Conns : \A call \in pending[c], resp \in Responses :
          Resolved(c, call, resp) =>
             /\ (Len(sent'[c]) - Len(sent[c]))
                   + (sendAfterClose'[c] - sendAfterClose[c]) = 1
             /\ conn[c] = "open" =>
                   sent'[c][Len(sent'[c])].event =
                      IF audioBlobOf(variant, resp) # <<>>
                      THEN "assistant_audio" ELSE "assistant_text"]_vars

\* server.js stored and logged an answer that had no audio and sent the
\* caller nothing, on a socket that is still open.
C15_AnsweredInSilence ==
    \E c \in Conns :
        /\ conn[c] = "open" /\ turns[c] = 1 /\ pending[c] = {}
        /\ \E i \in 1..Len(log[callId[c]]) : log[callId[c]][i].event \in AnswerEvents
        /\ sent[c] = <<>> /\ sendAfterClose[c] = 0

\* Every callback that is due runs, and every backend call settles.
FairSpec == Spec /\ \A c \in Conns : WF_vars(Settle(c))

\* turn n of connection c is waiting for the backend
TurnPending(c, n) == \E call \in pending[c] : call.turn = n

\* C16: the backend wait is bounded.  Every dispatched call eventually
\* resolves for its connection, as a success or as a degraded turn: a turn
\* that is pending eventually is not; and when the wait ends without an
\* answer (the call rejects or times out) the apology is handed to the
\* socket and a failure LogEvent is appended to the Call's log.
C16_EveryCallResolves ==
    /\ \A c \in Conns : \A n \in 1..MaxInbound :
          TurnPending(c, n) ~> ~TurnPending(c, n)
    /\ [][\A c \in Conns : \A call \in pending[c] :
             Rejected(c, call) =>
                /\ \/ sent'[c] = Append(sent[c], Apology)
                   \/ sendAfterClose'[c] = sendAfterClose[c] + 1
                /\ ErrorLogged(c)]_vars

\* every turn of every connection that is pending eventually is not
CallsSettle ==
    \A c \in Conns : \A n \in 1..MaxInbound :
        TurnPending(c, n) ~> ~TurnPending(c, n)

\* Two calls of one connection have settled, one with an answer and one in
\* the catch block, and both outcomes were sent on the open socket.
C16_BothOutcomes ==
    \E c \in Conns :
        /\ conn[c] = "open" /\ turns[c] = 2 /\ pending[c] = {}
        /\ Len(sent[c]) = 2
        /\ \E i, j \in 1..2 : sent[c][i] = Apology /\ sent[c][j] # Apology

\* The provider's call ids the webhook has seeded a record for and no
\* connection has taken yet.
Announced ==
    {id \in SidIds : memory[id] # <<>> /\ \A d \in Conns : callId[d] # id}

\* C17: a new streaming connection is given the provider-supplied call id
\* when there is one (the CallSid under which /incoming seeded memory and
\* log), and a freshly generated one only when there is none.
C17_ReusesProviderId ==
    [][\A c \in Conns : Connect(c) =>
          IF Announced # {}
          THEN callId'[c] \in Announced
          ELSE callId'[c] \in UuidIds /\ memory[callId'[c]] = <<>>]_vars

\* The webhook seeded the provider's CallSid and the call's stream runs
\* under a generated id whose memory does not hold the seed.
C17_StreamUnderOtherId ==
    \E c \in Conns :
        /\ conn[c] = "open" /\ callId[c] \in UuidIds
        /\ Announced # {}
        /\ turns[c] = 1
        /\ \A p \in 1..Len(memory[callId[c]]) : memory[callId[c]][p].role # "system"

\* C18: a successful call completes the turn's pair.  When the call of a
\* turn resolves, the Call's memory holds for that turn exactly one user
\* entry and exactly one assistant entry, the user entry first, and the
\* assistant entry is the one this step appended; whatever the response,
\* one whose extracted text is empty included.
C18_OneUserOneAssistant ==
    [][\A c \in Conns : \A call \in pending[c], resp \in Responses :
          Resolved(c, call, resp) =>
             LET mem == memory'[callId[c]]
                 mine == {p \in 1..Len(mem) : mem[p].turn = call.turn}
             IN /\ Len(mem) = Len(memory[callId[c]]) + 1
                /\ Cardinality(mine) = 2
                /\ \E p, q \in mine :
                      p < q /\ mem[p].role = "user" /\ mem[q].role = "assistant"]_vars

\* part_000 answered a turn with its fallback text and stored no assistant
\* entry: the Call's memory ends with the user entry.
C18_UserEntryAlone ==
    \E c \in Conns :
        /\ turns[c] = 1 /\ pending[c] = {}
        /\ sent[c] = <<OutFrame("assistant_text", AudioFallbackText)>>
        /\ Len(memory[callId[c]]) = 1 /\ memory[callId[c]][1].role = "user"

\* s is an initial part of t
IsPrefix(s, t) == Len(s) <= Len(t) /\ SubSeq(t, 1, Len(s)) = s

\* C19: memory and log are append-only.  In every step, for every Call, the
\* memory before the step is a prefix of the memory after it and the log
\* before the step is a prefix of the log after it: nothing is dropped,
\* rewritten or reordered.
C19_AppendOnly ==
    [][\A id \in CallIds :
          /\ IsPrefix(memory[id], memory'[id])
          /\ IsPrefix(log[id], log'[id])]_vars

\* The user entry of a connection's first turn is no longer in its memory.
C19_EntryDropped ==
    \E c \in Conns :
        /\ turns[c] >= 1 /\ memory[callId[c]] # <<>>
        /\ UserPos(c, 1) = 0

\* The first element of a sequence of yields that is not empty (<<>>: none).
RECURSIVE FirstNonEmpty(_)
FirstNonEmpty(ys) ==
    IF ys = <<>> THEN <<>>
    ELSE IF Head(ys) # <<>> THEN Head(ys)
    ELSE FirstNonEmpty(Tail(ys))

\* What each probe of a part_000 loop iteration can yield, part by part:
\* the content of a part of type "audio", then the part's audio field.
RECURSIVE LoopYields(_)
LoopYields(out) ==
    IF out = <<>> THEN <<>>
    ELSE <<IF Head(out).type = "audio" THEN Head(out).content ELSE <<>>,
           Head(out).audio>> \o LoopYields(Tail(out))

\* The yields of a revision's extraction strategies on a response, in the
\* order in which the revision probes them.
ProbeYields(v, resp) ==
    LET out == IF resp.hasOutput THEN resp.output ELSE <<>>
        first == IF out # <<>> THEN out[1].audio ELSE <<>>
        typed(t) == IF FirstOfType(out, t) = 0 THEN <<>>
                    ELSE out[FirstOfType(out, t)]
    IN IF v = "server"
       THEN <<IF typed("output_audio") = <<>> THEN <<>>
              ELSE typed("output_audio").audio>>
       ELSE IF v = "part000"
       THEN LoopYields(out) \o <<first>>
       ELSE <<IF typed("audio") = <<>> THEN <<>> ELSE typed("audio").content,
              first>>

\* the blob is the first non-empty yield in probing order
FirstYieldWins ==
    probe.done => probe.audio = FirstNonEmpty(ProbeYields(variant, probe.resp))

\* when a blob was found, a log line names the strategy that supplied it
StrategyLogged ==
    (probe.done /\ probe.audio # <<>>) =>
        \E i \in 1..Len(probe.log) : probe.log[i].flag # ""

\* C20: audio extraction takes the first strategy that yields content.  The
\* extracted blob is the first non-empty yield in the probing order, so a
\* probe that matches the shape and yields nothing (a part of type "audio"
\* with empty content) does not keep a later probe from supplying the
\* audio; and the strategy that matched is written to the log.
C20_FirstNonEmptyStrategy == FirstYieldWins /\ StrategyLogged

\* part_000 found no audio in a response whose second part carries audio
\* behind a first part of type "audio" that is empty.
C20_EmptyMatchBlocks ==
    /\ variant = "part000"
    /\ probe.done
    /\ probe.resp.output = <<Part("audio", <<>>, <<>>, <<>>),
                             Part("message", <<>>, <<"a">>, <<>>)>>
    /\ probe.audio = <<>>

\* the lower-cased words of a text
WordsOf(t) == {Lower(t[i]) : i \in 1..Len(t)}

\* C21: classifyIntent is a first-match-wins rule list.  A text with any
\* schedule keyword among its words is schedule_interview whatever else it
\* holds; otherwise one with any info keyword is info; otherwise one with
\* any greeting keyword is greeting; otherwise it is unknown; and
\* classifying the same text again gives the same tag.
C21_FirstMatchWins ==
    probe.done =>
       LET ws == WordsOf(probe.text)
       IN /\ probe.intent =
                IF ws \cap ScheduleWords # {} THEN "schedule_interview"
                ELSE IF ws \cap InfoWords # {} THEN "info"
                ELSE IF ws \cap GreetingWords # {} THEN "greeting"
                ELSE "unknown"
          /\ probe.again = probe.intent

\* A text with an info keyword before a capitalised schedule keyword was
\* classified as schedule_interview.
C21_ScheduleOverInfo ==
    /\ probe.done
    /\ probe.text = <<"when", "Book">>
    /\ probe.intent = "schedule_interview"

\* ------------------------------------------------------------- emotion
\* The frames of the runs about the emotion label: user_speech frames with
\* and without an emotion, with words and with a blank text.
EmotionFrames ==
    {f \in SpeechFrames : f.hasText /\ (Trim(f.text) # <<>> \/ f.emotion # "")}

NextEmotion == NextOver(EmotionFrames, Responses)

SpecEmotion == Init /\ [][NextEmotion]_vars

\* the tone named in the system prompt of a dispatched call
ToneOf(call) == call.input[1].content[2]

\* C22: the emotion label is sticky.  A connection starts with "neutral";
\* the run of a user_speech frame that supplies an emotion leaves that
\* emotion as the Call's label, the run of one that supplies none leaves
\* the label as it was, and the prompt of the call the run dispatches names
\* the tone of the label as it stands after the frame.
C22_StickyEmotion ==
    [][\A c \in Conns :
          /\ Connect(c) => lastEmotion'[c] = "neutral"
          /\ \A f \in EmotionFrames : Message(c, f) =>
                /\ lastEmotion'[c] =
                      IF f.emotion # "" THEN f.emotion ELSE lastEmotion[c]
                /\ \A call \in pending'[c] \ pending[c] :
                      ToneOf(call) = emotionToTone(variant, lastEmotion'[c])]_vars

\* The second turn of a connection, from a frame without emotion, was
\* dispatched with the tone of the anger the first frame carried.
C22_ToneCarriedOver ==
    \E c \in Conns : \E call \in pending[c] :
        /\ call.turn = 2 /\ call.text = <<"hi">>
        /\ lastEmotion[c] = "angry"
        /\ ToneOf(call) = emotionToTone(variant, "angry")

\* ------------------------------------------------------------- control frames
\* A JSON frame with an event that is not user_speech: the stream's
\* control events and an unrecognised one.
IsControl(f) ==
    f.json /\ f.event \in {"start", "media", "stop", "call_end", "other"}

\* The frames of the runs about control frames, and one user_speech frame.
ControlRunFrames ==
    {f \in ControlFrames : IsControl(f)}
    \cup {f \in SpeechFrames : f.hasText /\ Trim(f.text) # <<>> /\ f.emotion = ""}

NextControl == NextOver(ControlRunFrames, Responses)

SpecControl == Init /\ [][NextControl]_vars

\* C23: a well-formed frame that is not user_speech is logged and otherwise
\* ignored.  The message callback run of a start, media, stop, call_end or
\* unrecognised frame appends one line to the Call's log, leaves every
\* Call's memory as it was, dispatches no inference call and hands no frame
\* to the socket.
C23_ControlLoggedAndIgnored ==
    [][\A c \in Conns : \A f \in ControlRunFrames :
          (IsControl(f) /\ Message(c, f)) =>
             /\ Len(log'[callId[c]]) = Len(log[callId[c]]) + 1
             /\ memory' = memory
             /\ pending' = pending /\ turns' = turns
             /\ sent' = sent /\ sendAfterClose' = sendAfterClose]_vars

\* An unrecognised event was logged (part_000 writes other_event) and a
\* user_speech frame of the same connection was then dispatched.
C23_TurnAfterUnknownEvent ==
    \E c \in Conns :
        LET lg == log[callId[c]]
        IN /\ pending[c] # {}
           /\ \E i, j \in 1..Len(lg) :
                 i < j /\ lg[i].event = "other_event" /\ lg[j].event = "user_speech"

\* C24: success and degradation exclude each other.  The continuation that
\* appends a turn's assistant entry to memory neither writes a failure line
\* to the log nor hands the apology to the socket, and the continuation of
\* a failed call appends no entry.
C24_SuccessXorDegraded ==
    [][\A c \in Conns : \A call \in pending[c] :
          /\ Rejected(c, call) => memory' = memory
          /\ \A resp \in Responses :
                (Resolved(c, call, resp) /\ memory'[callId[c]] # memory[callId[c]])
                   => /\ ~ErrorLogged(c)
                      /\ conn[c] = "open" => sent'[c] # Append(sent[c], Apology)]_vars

\* One turn left both an assistant entry in memory and the apology on the
\* socket, with openai_error in the log.
C24_MergedAndApologised ==
    \E c \in Conns :
        LET mem == memory[callId[c]]
            lg == log[callId[c]]
        IN /\ turns[c] = 1 /\ pending[c] = {}
           /\ \E p \in 1..Len(mem) : mem[p].role = "assistant" /\ mem[p].turn = 1
           /\ sent[c] = <<Apology>>
           /\ \E i \in 1..Len(lg) : lg[i].event = "openai_error"

\* ------------------------------------------------------------- blank text
\* The frames of the runs about blank text: the user_speech frames whose
\* text is a blank, and one with words.
BlankFrames ==
    {f \in SpeechFrames : f.hasText /\ (Trim(f.text) = <<>> \/ f.emotion = "")}

NextBlank == NextOver(BlankFrames, Responses)

SpecBlank == Init /\ [][NextBlank]_vars

\* C25: a user_speech frame with a blank text is not a turn.  Its message
\* callback run appends no memory entry and no user_speech line to the log,
\* dispatches no inference call and hands no frame to the socket.
C25_BlankIsNoTurn ==
    [][\A c \in Conns : \A f \in BlankFrames :
          (Trim(f.text) = <<>> /\ Message(c, f)) =>
             /\ memory' = memory
             /\ \A i \in (Len(log[callId[c]]) + 1)..Len(log'[callId[c]]) :
                   log'[callId[c]][i].event # "user_speech"
             /\ pending' = pending /\ turns' = turns
             /\ sent' = sent /\ sendAfterClose' = sendAfterClose]_vars

\* An inference call is pending for a text that is one blank, and the blank
\* is stored as a user entry.
C25_BlankDispatched ==
    \E c \in Conns : \E call \in pending[c] :
        /\ call.text = <<SP>>
        /\ UserPos(c, call.turn) # 0
        /\ memory[callId[c]][UserPos(c, call.turn)].content = <<SP>>

\* the positions of the assistant entries of a memory
AssistantEntries(mem) == {p \in 1..Len(mem) : mem[p].role = "assistant"}

\* C26: the counts of a Call agree.  In every reachable state the memory of
\* a connection's Call holds at most as many assistant entries as user
\* entries; and every step dispatches exactly as many inference calls for a
\* connection as it adds user entries to its memory, so the number of calls
\* dispatched equals the number of user entries.
C26_CountsAgree ==
    /\ [](\A c \in Conns : conn[c] # "idle" =>
             Cardinality(AssistantEntries(memory[callId[c]]))
                <= Cardinality(UserEntries(memory[callId[c]])))
    /\ [][\A c \in Conns : conn[c] # "idle" =>
             Cardinality(pending'[c] \ pending[c])
                = Cardinality(UserEntries(memory'[callId[c]]))
                     - Cardinality(UserEntries(memory[callId[c]]))]_vars

\* After a failed read of the memory file the Call's memory holds the
\* assistant entry of a turn and no user entry.
C26_AnswerWithoutQuestion ==
    \E c \in Conns :
        /\ turns[c] = 1 /\ pending[c] = {}
        /\ Cardinality(AssistantEntries(memory[callId[c]])) = 1
        /\ UserEntries(memory[callId[c]]) = {}

============================================================================
